---- MODULE Spec2Model ----
(***************************************************************************)
(* A model of the domain layer of daily-tracker: the TaskEntry and         *)
(* SleepEntry entities, their domain-event buffers and the errors they     *)
(* return.  One behaviour follows the life of one entity, from the call of *)
(* its constructor on.                                                     *)
(*                                                                         *)
(* Representation.                                                         *)
(*   - time.Duration values are counted in minutes (Minute = 1).           *)
(*   - time.Now() reads the variable now, a clock that never runs back.    *)
(*   - a bedtime or wake time is a time.Time with a fixed-offset location: *)
(*     [unix |-> minutes since the epoch, off |-> minutes east of UTC].    *)
(*   - a float64 number of hours is the exact fraction [num, den] in       *)
(*     lowest terms.                                                       *)
(*   - a *T pointer is <<>> (nil) or <<v>>; a nil entity is NilEntry.      *)
(*   - the category tokens are transliterated to ASCII.                    *)
(*   - a string that NewTaskCategory gets is the sequence of its           *)
(*     characters, so that trimming and lower-casing are computed.         *)
(*   - a []DomainEvent slice in the entity is the sequence of its          *)
(*     elements; the slice a caller got from DomainEvents() is a record    *)
(*     that says whether it still has the backing array of the entity's    *)
(*     slice (shared) or an array the entity has left (own).               *)
(***************************************************************************)
EXTENDS Integers, Sequences, FiniteSets, TLC

VARIABLES
    te,     \* the TaskEntry under observation (NilEntry before construction)
    se,     \* the SleepEntry under observation (NilEntry before construction)
    now,    \* the reading of time.Now()
    op,     \* the name of the last operation called
    arg,    \* its arguments
    ret,    \* the error it returned (NilErr: no error)
    hist,   \* history: what the calls made so far returned and appended
    view,   \* the slice a caller of DomainEvents() kept (NoView: none kept)
    val,    \* the value the last call returned beside its error
    threads, \* the callers that run StartTask statement by statement
    made    \* the events NewBaseEvent has returned so far, in order

vars == <<te, se, now, op, arg, ret, hist, view, val, threads, made>>

----------------------------------------------------------------------------
(* Bounds of the model *)

MaxClock == 1
MaxEvents == 2
MaxAwakenings == 4
ScaleMargin == 2

(* Inputs the calls are drawn from *)

Minute == 1
Hour == 60 * Minute

TaskIDs == {"task-1"}
Dates == {20250812}
DayNumbers == {0, 1}
KeyTasks == {"", "write the report"}
Categories == {"rabota"}
LevelInputs == {0, 4, 10}
DurationInputs == {-1 * Minute, 0, 25 * Minute}
NotesInputs == {"distracted by mail"}

SleepIDs == {"sleep-1"}
QualityInputs == {3, 4, 6}
SleepinessInputs == {1, 3}
\* The integers the scale constructors are given: ScaleMargin beyond 0..10.
ScaleInputs == (0 - ScaleMargin)..(10 + ScaleMargin)

\* The strings NewTaskCategory is given and the values a caller casts to
\* TaskCategory.
CategoryInputs ==
    {<<"r", "a", "b", "o", "t", "a">>,
     <<" ", "R", "a", "b", "o", "t", "a", " ">>,
     <<"R", "A", "B", "O", "T", "A">>,
     <<"\t", "u", "c", "h", "e", "b", "a", "\n">>,
     <<"U", "c", "H", "e", "B", "a">>,
     <<"l", "i", "c", "h", "n", "o", "e">>,
     <<"z", "d", "o", "r", "o", "v", "e">>,
     <<"h", "o", "b", "b", "i", " ">>,
     <<"d", "r", "u", "g", "o", "e">>,
     <<>>,
     <<" ", " ">>,
     <<"r", "a", "b">>,
     <<"r", "a", "b", "o", "t", "a", "a">>,
     <<"r", "a", " ", "b", "o", "t", "a">>,
     <<"w", "o", "r", "k">>,
     <<"H", "o", "b", "b", "y">>}

\* The strings the error constructors are given.
TextInputs == {"", "not allowed", "E42"}

LatencyInputs == {-1 * Minute, 0, 2 * Hour, 2 * Hour + Minute}

Day == 24 * Hour
UTC == 0
Kiritimati == 14 * Hour    \* UTC+14
BakerIsland == -12 * Hour  \* UTC-12

\* time.Time values: wall clock hh:mm on day d (days counted from the epoch)
\* in the location with offset off.
Clock(d, hh, mm, off) ==
    [unix |-> d * Day + hh * Hour + mm * Minute - off, off |-> off]

\* The (bedtime, wakeTime) pairs NewSleepEntry is called with.
Nights ==
    { \* 00:30 to 08:00 of the same day
      [bedtime |-> Clock(1, 0, 30, UTC), wakeTime |-> Clock(1, 8, 0, UTC)],
      \* 23:00 and 07:00 on the same date: the wake time is 16h before bedtime
      [bedtime |-> Clock(1, 23, 0, UTC), wakeTime |-> Clock(1, 7, 0, UTC)],
      \* the wake time is 25h before bedtime
      [bedtime |-> Clock(1, 23, 0, UTC), wakeTime |-> Clock(0, 22, 0, UTC)],
      \* 00:30 on Baker Island, then 01:00 of the next date in Kiritimati,
      \* an instant 1h30 before that bedtime
      [bedtime |-> Clock(1, 0, 30, BakerIsland),
       wakeTime |-> Clock(2, 1, 0, Kiritimati)] }

----------------------------------------------------------------------------
(* pkg/errors *)

NilErr == [kind |-> "nil", message |-> "", code |-> ""]

NewDomainError(message) ==
    [kind |-> "DomainError", message |-> message, code |-> "DOMAIN_ERROR"]

\* A return without error that carries the value v.
Value(v) == [kind |-> "nil", message |-> "", code |-> "", value |-> v]

IsErr(e) == e.kind # "nil"

\* NewDomainErrorWithCode that ignores the code it is given.
Mutant_NewDomainErrorWithCode_DefaultCode(message, code) ==
    [kind |-> "DomainError", message |-> message, code |-> "DOMAIN_ERROR"]

NewDomainErrorWithCode(message, code) ==
    [kind |-> "DomainError", message |-> message, code |-> code]

NewValidationError(field, message) ==
    [kind |-> "ValidationError", message |-> message, field |-> field]

NewNotFoundError(resource, id) ==
    [kind |-> "NotFoundError", resource |-> resource, id |-> id]

\* The accessors.
DomainError_Code(de) == de.code
DomainError_Message(de) == de.message
ValidationError_Field(ve) == ve.field
ValidationError_Message(ve) == ve.message
NotFoundError_Resource(nfe) == nfe.resource
NotFoundError_ID(nfe) == nfe.id

\* The type assertions err.(*DomainError), err.(*ValidationError) and
\* err.(*NotFoundError): the dynamic type of the error, false for nil.
IsDomainError(err) == err.kind = "DomainError"
IsValidationError(err) == err.kind = "ValidationError"
IsNotFoundError(err) == err.kind = "NotFoundError"

----------------------------------------------------------------------------
(* valueobjects: the scales *)

StressLevelMin == 0
StressLevelMax == 10

\* NewStressLevel that returns a ValidationError.
Mutant_NewStressLevel_ValidationError(level) ==
    IF level < StressLevelMin \/ level > StressLevelMax
    THEN [value |-> 0,
          err |-> NewValidationError("stress level",
                                     "stress level must be between 0 and 10")]
    ELSE [value |-> level, err |-> NilErr]

NewStressLevel(level) ==
    IF level < StressLevelMin \/ level > StressLevelMax
    THEN [value |-> 0,
          err |-> NewDomainError("stress level must be between 0 and 10")]
    ELSE [value |-> level, err |-> NilErr]

NewEnergyLevel(level) ==
    IF level < 0 \/ level > 10
    THEN [value |-> 0,
          err |-> NewDomainError("energy level must be between 0 and 10")]
    ELSE [value |-> level, err |-> NilErr]

\* NewMoodLevel that rejects 10.
Mutant_NewMoodLevel_RejectTen(level) ==
    IF level < 0 \/ level >= 10
    THEN [value |-> 0,
          err |-> NewDomainError("mood level must be between 0 and 10")]
    ELSE [value |-> level, err |-> NilErr]

NewMoodLevel(level) ==
    IF level < 0 \/ level > 10
    THEN [value |-> 0,
          err |-> NewDomainError("mood level must be between 0 and 10")]
    ELSE [value |-> level, err |-> NilErr]

NewSleepQuality(quality) ==
    IF quality < 0 \/ quality > 10
    THEN [value |-> 0,
          err |-> NewDomainError("sleep quality must be between 0 and 10")]
    ELSE [value |-> quality, err |-> NilErr]

NewDaytimeSleepiness(sleepiness) ==
    IF sleepiness < 0 \/ sleepiness > 10
    THEN [value |-> 0,
          err |-> NewDomainError("daytime sleepiness must be between 0 and 10")]
    ELSE [value |-> sleepiness, err |-> NilErr]

\* Int(): the conversion int(sl) of a value whose underlying type is int.
Scale_Int(v) == v

StressLevel_IsHigh(sl) == sl >= 7
EnergyLevel_IsLow(el) == el <= 3

\* IsPositive that starts at 7.
Mutant_MoodLevel_IsPositive_FromSeven(ml) == ml >= 7

MoodLevel_IsPositive(ml) == ml >= 6
SleepQuality_IsGood(sq) == sq >= 7
DaytimeSleepiness_IsHigh(ds) == ds >= 7

----------------------------------------------------------------------------
(* valueobjects: TaskCategory *)

UpperCase == <<"A", "B", "C", "D", "E", "F", "G", "H", "I", "J", "K", "L", "M",
               "N", "O", "P", "Q", "R", "S", "T", "U", "V", "W", "X", "Y", "Z">>
LowerCase == <<"a", "b", "c", "d", "e", "f", "g", "h", "i", "j", "k", "l", "m",
               "n", "o", "p", "q", "r", "s", "t", "u", "v", "w", "x", "y", "z">>

\* The characters strings.TrimSpace removes.
WhiteSpace == {" ", "\t", "\n", "\r"}

unicode_ToLower(c) ==
    IF \E i \in 1..Len(UpperCase) : UpperCase[i] = c
    THEN LowerCase[CHOOSE i \in 1..Len(UpperCase) : UpperCase[i] = c]
    ELSE c

strings_ToLower(str) == [i \in 1..Len(str) |-> unicode_ToLower(str[i])]

strings_TrimSpace(str) ==
    LET keep == {i \in 1..Len(str) : str[i] \notin WhiteSpace}
    IN  IF keep = {} THEN <<>>
        ELSE SubSeq(str,
                    CHOOSE i \in keep : \A j \in keep : i <= j,
                    CHOOSE i \in keep : \A j \in keep : i >= j)

TaskCategoryWork == <<"r", "a", "b", "o", "t", "a">>
TaskCategoryStudy == <<"u", "c", "h", "e", "b", "a">>
TaskCategoryPersonal == <<"l", "i", "c", "h", "n", "o", "e">>
TaskCategoryHealth == <<"z", "d", "o", "r", "o", "v", "e">>
TaskCategoryHobbies == <<"h", "o", "b", "b", "i">>
TaskCategoryOther == <<"d", "r", "u", "g", "o", "e">>

AllTaskCategories ==
    <<TaskCategoryWork, TaskCategoryStudy, TaskCategoryPersonal,
      TaskCategoryHealth, TaskCategoryHobbies, TaskCategoryOther>>

\* NewTaskCategory that lower-cases the string untrimmed.
Mutant_NewTaskCategory_NoTrim(category) ==
    LET c == strings_ToLower(category)
        Match(validCategory) == strings_ToLower(validCategory) = c
        \* the element at which the range loop returns
        first == CHOOSE i \in 1..Len(AllTaskCategories) :
                    /\ Match(AllTaskCategories[i])
                    /\ \A j \in 1..(i - 1) : ~Match(AllTaskCategories[j])
    IN  IF \E i \in 1..Len(AllTaskCategories) : Match(AllTaskCategories[i])
        THEN [value |-> AllTaskCategories[first], err |-> NilErr]
        ELSE [value |-> <<>>,
              err |-> NewDomainError(<<"invalid task category: ", c>>)]

\* The message "invalid task category: " + category is kept as the pair of
\* its two parts.
NewTaskCategory(category) ==
    LET c == strings_ToLower(strings_TrimSpace(category))
        Match(validCategory) == strings_ToLower(validCategory) = c
        \* the element at which the range loop returns
        first == CHOOSE i \in 1..Len(AllTaskCategories) :
                    /\ Match(AllTaskCategories[i])
                    /\ \A j \in 1..(i - 1) : ~Match(AllTaskCategories[j])
    IN  IF \E i \in 1..Len(AllTaskCategories) : Match(AllTaskCategories[i])
        THEN [value |-> AllTaskCategories[first], err |-> NilErr]
        ELSE [value |-> <<>>,
              err |-> NewDomainError(<<"invalid task category: ", c>>)]

\* IsValid that compares the lower-cased value.
Mutant_TaskCategory_IsValid_IgnoreCase(tc) ==
    \E i \in 1..Len(AllTaskCategories) :
        strings_ToLower(tc) = AllTaskCategories[i]

TaskCategory_IsValid(tc) ==
    \E i \in 1..Len(AllTaskCategories) : tc = AllTaskCategories[i]

----------------------------------------------------------------------------
(* The event buffer *)

NilEntry == [nil |-> TRUE]

\* The new event put in front of the buffer instead of at its end.
Mutant_addDomainEvent_Prepend(e, event) ==
    [e EXCEPT !.domainEvents = <<event>> \o e.domainEvents]

TaskEntry_addDomainEvent(e, event) ==
    [e EXCEPT !.domainEvents = Append(e.domainEvents, event)]

TaskEntry_DomainEvents(e) == e.domainEvents

TaskEntry_ClearDomainEvents(e) == [e EXCEPT !.domainEvents = <<>>]

----------------------------------------------------------------------------
(* TaskEntry *)

TaskStartedEvent(id, t) ==
    [type |-> "TaskStarted", taskEntryID |-> id, occurredOn |-> t]

StressLevelChangedEvent(id, before, after, t) ==
    [type |-> "StressLevelChanged", taskEntryID |-> id,
     stressBefore |-> before, stressAfter |-> after, occurredOn |-> t]

\* NewTaskEntry that accepts the day number 0.
Mutant_NewTaskEntry_DayZero(id, date, dayNumber, keyTask, category, stressBefore) ==
    IF keyTask = ""
    THEN [entry |-> NilEntry, err |-> NewDomainError("key task cannot be empty")]
    ELSE IF dayNumber < 0
    THEN [entry |-> NilEntry, err |-> NewDomainError("day number must be positive")]
    ELSE [entry |-> [nil |-> FALSE,
                     id |-> id,
                     date |-> date,
                     dayNumber |-> dayNumber,
                     keyTask |-> keyTask,
                     category |-> category,
                     stressBefore |-> stressBefore,
                     started |-> FALSE,
                     startTime |-> <<>>,
                     activeDuration |-> 0,
                     continuedAfter |-> FALSE,
                     stressAfter |-> 0,
                     distractions |-> 0,
                     blocksCompleted |-> 0,
                     pomodoroCount |-> 0,
                     lightExposure |-> 0,
                     energy |-> 0,
                     mood |-> 0,
                     notes |-> "",
                     domainEvents |-> <<>>],
          err |-> NilErr]

NewTaskEntry(id, date, dayNumber, keyTask, category, stressBefore) ==
    IF keyTask = ""
    THEN [entry |-> NilEntry, err |-> NewDomainError("key task cannot be empty")]
    ELSE IF dayNumber < 1
    THEN [entry |-> NilEntry, err |-> NewDomainError("day number must be positive")]
    ELSE [entry |-> [nil |-> FALSE,
                     id |-> id,
                     date |-> date,
                     dayNumber |-> dayNumber,
                     keyTask |-> keyTask,
                     category |-> category,
                     stressBefore |-> stressBefore,
                     started |-> FALSE,
                     startTime |-> <<>>,
                     activeDuration |-> 0,
                     continuedAfter |-> FALSE,
                     stressAfter |-> 0,
                     distractions |-> 0,
                     blocksCompleted |-> 0,
                     pomodoroCount |-> 0,
                     lightExposure |-> 0,
                     energy |-> 0,
                     mood |-> 0,
                     notes |-> "",
                     domainEvents |-> <<>>],
          err |-> NilErr]

\* StartTask that stamps the start time again when it returns the error.
Mutant_StartTask_RestampOnError(e, t) ==
    IF e.started
    THEN [entry |-> [e EXCEPT !.startTime = <<t>>],
          err |-> NewDomainError("task already started")]
    ELSE [entry |-> TaskEntry_addDomainEvent(
                        [e EXCEPT !.started = TRUE, !.startTime = <<t>>],
                        TaskStartedEvent(e.id, t)),
          err |-> NilErr]

\* StartTask that does not record the start time.
Mutant_StartTask_NoStartTime(e, t) ==
    IF e.started
    THEN [entry |-> e, err |-> NewDomainError("task already started")]
    ELSE [entry |-> TaskEntry_addDomainEvent(
                        [e EXCEPT !.started = TRUE],
                        TaskStartedEvent(e.id, t)),
          err |-> NilErr]

\* StartTask without the check of the started flag.
Mutant_StartTask_NoCheck(e, t) ==
    [entry |-> TaskEntry_addDomainEvent(
                   [e EXCEPT !.started = TRUE, !.startTime = <<t>>],
                   TaskStartedEvent(e.id, t)),
     err |-> NilErr]

TaskEntry_StartTask(e, t) ==
    IF e.started
    THEN [entry |-> e, err |-> NewDomainError("task already started")]
    ELSE [entry |-> TaskEntry_addDomainEvent(
                        [e EXCEPT !.started = TRUE, !.startTime = <<t>>],
                        TaskStartedEvent(e.id, t)),
          err |-> NilErr]

\* UpdateDuration that rejects a zero duration too.
Mutant_UpdateDuration_RejectZero(e, duration) ==
    IF ~e.started
    THEN [entry |-> e,
          err |-> NewDomainError("cannot update duration: task not started")]
    ELSE IF duration <= 0
    THEN [entry |-> e, err |-> NewDomainError("duration cannot be negative")]
    ELSE [entry |-> [e EXCEPT !.activeDuration = duration], err |-> NilErr]

TaskEntry_UpdateDuration(e, duration) ==
    IF ~e.started
    THEN [entry |-> e,
          err |-> NewDomainError("cannot update duration: task not started")]
    ELSE IF duration < 0
    THEN [entry |-> e, err |-> NewDomainError("duration cannot be negative")]
    ELSE [entry |-> [e EXCEPT !.activeDuration = duration], err |-> NilErr]

\* SetStressAfter that appends no event when the level is the one held.
Mutant_SetStressAfter_OnlyOnChange(e, stressLevel, t) ==
    IF stressLevel = e.stressAfter
    THEN e
    ELSE TaskEntry_addDomainEvent(
             [e EXCEPT !.stressAfter = stressLevel],
             StressLevelChangedEvent(e.id, e.stressBefore, stressLevel, t))

\* SetStressAfter whose event carries as its 'before' level the stressAfter
\* held before the call.
Mutant_SetStressAfter_BeforeIsHeld(e, stressLevel, t) ==
    TaskEntry_addDomainEvent(
        [e EXCEPT !.stressAfter = stressLevel],
        StressLevelChangedEvent(e.id, e.stressAfter, stressLevel, t))

TaskEntry_SetStressAfter(e, stressLevel, t) ==
    TaskEntry_addDomainEvent(
        [e EXCEPT !.stressAfter = stressLevel],
        StressLevelChangedEvent(e.id, e.stressBefore, stressLevel, t))

\* CalculateStressReduction with the operands the other way round.
Mutant_CalculateStressReduction_Reversed(e) == e.stressAfter - e.stressBefore

TaskEntry_CalculateStressReduction(e) == e.stressBefore - e.stressAfter

TaskEntry_AddNotes(e, notes) == [e EXCEPT !.notes = notes]

----------------------------------------------------------------------------
(* package time, as far as the entities use it *)

Time_Before(t, u) == t.unix < u.unix

Time_Sub(t, u) == t.unix - u.unix

\* t.AddDate(0, 0, days): the same wall clock, days later, in t's location.
Time_AddDate(t, days) == [unix |-> t.unix + days * Day, off |-> t.off]

\* The calendar date (Year, Month, Day) of t in its own location, as the
\* number of the day.
Time_YearMonthDay(t) == (t.unix + t.off) \div Day

\* time.Date(year, month, day, 0, 0, 0, 0, loc): midnight of that date in loc.
Time_Date(date, off) == [unix |-> date * Day - off, off |-> off]

Abs(x) == IF x < 0 THEN -x ELSE x

RECURSIVE GCD(_, _)
GCD(a, b) == IF b = 0 THEN a ELSE GCD(b, a % b)

\* Duration.Hours(): the duration as a floating-point number of hours.
Duration_Hours(d) ==
    LET g == GCD(Hour, Abs(d))
    IN  [num |-> d \div g, den |-> Hour \div g]

\* Comparisons of a number of hours with a whole number.
HoursGE(h, n) == h.num >= n * h.den
HoursLE(h, n) == h.num <= n * h.den

----------------------------------------------------------------------------
(* SleepEntry *)

SleepEntry_addDomainEvent(e, event) ==
    [e EXCEPT !.domainEvents = Append(e.domainEvents, event)]

SleepEntry_DomainEvents(e) == e.domainEvents

\* ClearDomainEvents that resets the count of awakenings too.
Mutant_SleepClearDomainEvents_ResetCount(e) ==
    [e EXCEPT !.domainEvents = <<>>, !.nightAwakenings = 0]

SleepEntry_ClearDomainEvents(e) == [e EXCEPT !.domainEvents = <<>>]

SleepEntryCreatedEvent(id, date, totalHours, quality, t) ==
    [type |-> "SleepEntryCreated", sleepEntryID |-> id, date |-> date,
     totalHours |-> totalHours, quality |-> quality, occurredOn |-> t]

SleepLatencyChangedEvent(id, oldLatency, newLatency, t) ==
    [type |-> "SleepLatencyChanged", sleepEntryID |-> id,
     oldLatency |-> oldLatency, newLatency |-> newLatency, occurredOn |-> t]

NightAwakeningRecordedEvent(id, awakeningNumber, t) ==
    [type |-> "NightAwakeningRecorded", sleepEntryID |-> id,
     awakeningNumber |-> awakeningNumber, occurredOn |-> t]

PoorSleepQualityDetectedEvent(id, reason, awakenings, quality, t) ==
    [type |-> "PoorSleepQualityDetected", sleepEntryID |-> id,
     reason |-> reason, awakenings |-> awakenings, quality |-> quality,
     occurredOn |-> t]

DaytimeSleepinessChangedEvent(id, oldSleepiness, newSleepiness, t) ==
    [type |-> "DaytimeSleepinessChanged", sleepEntryID |-> id,
     oldSleepiness |-> oldSleepiness, newSleepiness |-> newSleepiness,
     occurredOn |-> t]

SleepQualityUpdatedEvent(id, oldQuality, newQuality, t) ==
    [type |-> "SleepQualityUpdated", sleepEntryID |-> id,
     oldQuality |-> oldQuality, newQuality |-> newQuality, occurredOn |-> t]

SleepEntry_calculateTotalSleepHours(e) ==
    LET duration == Time_Sub(e.wakeTime, e.bedtime)
        rolled == IF duration < 0 THEN duration + 24 * Hour ELSE duration
        actualSleepDuration == rolled - e.sleepLatency
    IN  [e EXCEPT !.totalSleepHours = Duration_Hours(actualSleepDuration)]

\* The validation that lets through a wake time less than 24h before the
\* bedtime.
Mutant_WakeBeforeBedtime_RolloverAllowed(bedtime, wakeTime) ==
    Time_Sub(wakeTime, bedtime) + 24 * Hour < 0

\* The validation of NewSleepEntry: whether the pair is rejected.
WakeBeforeBedtime(bedtime, wakeTime) ==
    /\ Time_Before(wakeTime, bedtime)
    /\ LET nextDay == Time_AddDate(bedtime, 1)
       IN  Time_Before(wakeTime,
                       Time_Date(Time_YearMonthDay(nextDay), wakeTime.off))

\* NewSleepEntry that builds the event before the total is computed.
Mutant_NewSleepEntry_EventFirst(id, date, bedtime, wakeTime, sleepQuality, t) ==
    IF WakeBeforeBedtime(bedtime, wakeTime)
    THEN [entry |-> NilEntry,
          err |-> NewDomainError(
                      "wake time cannot be before bedtime on the same day")]
    ELSE LET sleepEntry ==
                 [nil |-> FALSE, id |-> id, date |-> date,
                  bedtime |-> bedtime, wakeTime |-> wakeTime,
                  sleepLatency |-> 0, nightAwakenings |-> 0,
                  totalSleepHours |-> Duration_Hours(0),
                  sleepQuality |-> sleepQuality, daytimeSleepiness |-> 0,
                  caffeineAfterNoon |-> FALSE, screenUseBeforeBed |-> 0,
                  eveningFreeTime |-> 0, notes |-> "", domainEvents |-> <<>>]
         IN  [entry |-> SleepEntry_calculateTotalSleepHours(
                            SleepEntry_addDomainEvent(
                                sleepEntry,
                                SleepEntryCreatedEvent(id, date,
                                    sleepEntry.totalSleepHours, sleepQuality,
                                    t))),
              err |-> NilErr]

NewSleepEntry(id, date, bedtime, wakeTime, sleepQuality, t) ==
    IF WakeBeforeBedtime(bedtime, wakeTime)
    THEN [entry |-> NilEntry,
          err |-> NewDomainError(
                      "wake time cannot be before bedtime on the same day")]
    ELSE LET sleepEntry ==
                 SleepEntry_calculateTotalSleepHours(
                     [nil |-> FALSE,
                      id |-> id,
                      date |-> date,
                      bedtime |-> bedtime,
                      wakeTime |-> wakeTime,
                      sleepLatency |-> 0,
                      nightAwakenings |-> 0,
                      totalSleepHours |-> Duration_Hours(0),
                      sleepQuality |-> sleepQuality,
                      daytimeSleepiness |-> 0,
                      caffeineAfterNoon |-> FALSE,
                      screenUseBeforeBed |-> 0,
                      eveningFreeTime |-> 0,
                      notes |-> "",
                      domainEvents |-> <<>>])
         IN  [entry |-> SleepEntry_addDomainEvent(
                            sleepEntry,
                            SleepEntryCreatedEvent(id, date,
                                sleepEntry.totalSleepHours, sleepQuality, t)),
              err |-> NilErr]

\* SetSleepLatency that rejects a latency of exactly 2h too.
Mutant_SetSleepLatency_RejectTwoHours(e, latency, t) ==
    IF latency < 0
    THEN [entry |-> e, err |-> NewDomainError("sleep latency cannot be negative")]
    ELSE IF latency >= 2 * Hour
    THEN [entry |-> e,
          err |-> NewDomainError("sleep latency seems too long (over 2 hours)")]
    ELSE LET oldLatency == e.sleepLatency
             set == [e EXCEPT !.sleepLatency = latency]
         IN  [entry |-> IF oldLatency # latency
                        THEN SleepEntry_addDomainEvent(
                                 set,
                                 SleepLatencyChangedEvent(e.id, oldLatency,
                                                          latency, t))
                        ELSE set,
              err |-> NilErr]

\* SetSleepLatency that appends the event whether the latency changed or not.
Mutant_SetSleepLatency_AlwaysEvent(e, latency, t) ==
    IF latency < 0
    THEN [entry |-> e, err |-> NewDomainError("sleep latency cannot be negative")]
    ELSE IF latency > 2 * Hour
    THEN [entry |-> e,
          err |-> NewDomainError("sleep latency seems too long (over 2 hours)")]
    ELSE [entry |-> SleepEntry_addDomainEvent(
                        [e EXCEPT !.sleepLatency = latency],
                        SleepLatencyChangedEvent(e.id, e.sleepLatency,
                                                 latency, t)),
          err |-> NilErr]

\* SetSleepLatency that stores the latency before it checks the upper limit.
Mutant_SetSleepLatency_StoreFirst(e, latency, t) ==
    IF latency < 0
    THEN [entry |-> e, err |-> NewDomainError("sleep latency cannot be negative")]
    ELSE IF latency > 2 * Hour
    THEN [entry |-> [e EXCEPT !.sleepLatency = latency],
          err |-> NewDomainError("sleep latency seems too long (over 2 hours)")]
    ELSE LET oldLatency == e.sleepLatency
             set == [e EXCEPT !.sleepLatency = latency]
         IN  [entry |-> IF oldLatency # latency
                        THEN SleepEntry_addDomainEvent(
                                 set,
                                 SleepLatencyChangedEvent(e.id, oldLatency,
                                                          latency, t))
                        ELSE set,
              err |-> NilErr]

\* SetSleepLatency that recomputes the total after storing the latency.
Mutant_SetSleepLatency_Recompute(e, latency, t) ==
    IF latency < 0
    THEN [entry |-> e, err |-> NewDomainError("sleep latency cannot be negative")]
    ELSE IF latency > 2 * Hour
    THEN [entry |-> e,
          err |-> NewDomainError("sleep latency seems too long (over 2 hours)")]
    ELSE LET oldLatency == e.sleepLatency
             set == SleepEntry_calculateTotalSleepHours(
                        [e EXCEPT !.sleepLatency = latency])
         IN  [entry |-> IF oldLatency # latency
                        THEN SleepEntry_addDomainEvent(
                                 set,
                                 SleepLatencyChangedEvent(e.id, oldLatency,
                                                          latency, t))
                        ELSE set,
              err |-> NilErr]

SleepEntry_SetSleepLatency(e, latency, t) ==
    IF latency < 0
    THEN [entry |-> e, err |-> NewDomainError("sleep latency cannot be negative")]
    ELSE IF latency > 2 * Hour
    THEN [entry |-> e,
          err |-> NewDomainError("sleep latency seems too long (over 2 hours)")]
    ELSE LET oldLatency == e.sleepLatency
             set == [e EXCEPT !.sleepLatency = latency]
         IN  [entry |-> IF oldLatency # latency
                        THEN SleepEntry_addDomainEvent(
                                 set,
                                 SleepLatencyChangedEvent(e.id, oldLatency,
                                                          latency, t))
                        ELSE set,
              err |-> NilErr]

\* RecordNightAwakening that detects poor sleep from the second awakening on.
Mutant_RecordNightAwakening_FromTwo(e, t1, t2) ==
    LET counted == [e EXCEPT !.nightAwakenings = @ + 1]
        recorded == SleepEntry_addDomainEvent(
                        counted,
                        NightAwakeningRecordedEvent(e.id,
                            counted.nightAwakenings, t1))
    IN  IF counted.nightAwakenings >= 2
        THEN SleepEntry_addDomainEvent(
                 recorded,
                 PoorSleepQualityDetectedEvent(e.id,
                     "multiple night awakenings", counted.nightAwakenings,
                     <<>>, t2))
        ELSE recorded

\* t1, t2: the two readings of time.Now(), one per event.
SleepEntry_RecordNightAwakening(e, t1, t2) ==
    LET counted == [e EXCEPT !.nightAwakenings = @ + 1]
        recorded == SleepEntry_addDomainEvent(
                        counted,
                        NightAwakeningRecordedEvent(e.id,
                            counted.nightAwakenings, t1))
    IN  IF counted.nightAwakenings >= 3
        THEN SleepEntry_addDomainEvent(
                 recorded,
                 PoorSleepQualityDetectedEvent(e.id,
                     "multiple night awakenings", counted.nightAwakenings,
                     <<>>, t2))
        ELSE recorded

\* SetDaytimeSleepiness that reads the old level after storing the new one.
Mutant_SetDaytimeSleepiness_OldAfterSet(e, sleepiness, t) ==
    LET set == [e EXCEPT !.daytimeSleepiness = sleepiness]
        oldSleepiness == set.daytimeSleepiness
    IN  IF Abs(sleepiness - oldSleepiness) >= 3
        THEN SleepEntry_addDomainEvent(
                 set,
                 DaytimeSleepinessChangedEvent(e.id, oldSleepiness,
                                               sleepiness, t))
        ELSE set

SleepEntry_SetDaytimeSleepiness(e, sleepiness, t) ==
    LET oldSleepiness == e.daytimeSleepiness
        set == [e EXCEPT !.daytimeSleepiness = sleepiness]
    IN  IF Abs(sleepiness - oldSleepiness) >= 3
        THEN SleepEntry_addDomainEvent(
                 set,
                 DaytimeSleepinessChangedEvent(e.id, oldSleepiness,
                                               sleepiness, t))
        ELSE set

\* UpdateSleepQuality that detects poor sleep below 3 only.
Mutant_UpdateSleepQuality_BelowThree(e, quality, t1, t2) ==
    LET oldQuality == e.sleepQuality
        updated == SleepEntry_addDomainEvent(
                       [e EXCEPT !.sleepQuality = quality],
                       SleepQualityUpdatedEvent(e.id, oldQuality, quality, t1))
    IN  IF quality < 3
        THEN SleepEntry_addDomainEvent(
                 updated,
                 PoorSleepQualityDetectedEvent(e.id, "low quality rating", 0,
                                               <<quality>>, t2))
        ELSE updated

SleepEntry_UpdateSleepQuality(e, quality, t1, t2) ==
    LET oldQuality == e.sleepQuality
        updated == SleepEntry_addDomainEvent(
                       [e EXCEPT !.sleepQuality = quality],
                       SleepQualityUpdatedEvent(e.id, oldQuality, quality, t1))
    IN  IF quality <= 3
        THEN SleepEntry_addDomainEvent(
                 updated,
                 PoorSleepQualityDetectedEvent(e.id, "low quality rating", 0,
                                               <<quality>>, t2))
        ELSE updated

\* IsSleepHealthy that allows no awakening at all.
Mutant_IsSleepHealthy_NoAwakening(e) ==
    /\ HoursGE(e.totalSleepHours, 7)
    /\ HoursLE(e.totalSleepHours, 9)
    /\ e.sleepQuality >= 6
    /\ e.nightAwakenings < 1

SleepEntry_IsSleepHealthy(e) ==
    /\ HoursGE(e.totalSleepHours, 7)
    /\ HoursLE(e.totalSleepHours, 9)
    /\ e.sleepQuality >= 6
    /\ e.nightAwakenings <= 1

SleepEntry_TotalSleepHours(e) == e.totalSleepHours

----------------------------------------------------------------------------
(* History of the calls *)

\* The events a call appended: what the new buffer holds beyond the old one.
Emitted(old, new) ==
    IF Len(new) >= Len(old) THEN SubSeq(new, Len(old) + 1, Len(new)) ELSE <<>>

CountType(events, type) ==
    Cardinality({i \in 1..Len(events) : events[i].type = type})

\* The PoorSleepQualityDetected events among them that an awakening caused.
CountPoorByAwakenings(events) ==
    Cardinality({i \in 1..Len(events) :
                    /\ events[i].type = "PoorSleepQualityDetected"
                    /\ events[i].reason = "multiple night awakenings"})

NoHist ==
    [startOk |-> 0,            \* StartTask calls that returned no error
     taskStarted |-> 0,        \* TaskStarted events appended
     awakeningCalls |-> 0,     \* RecordNightAwakening calls
     awakeningsRecorded |-> 0, \* NightAwakeningRecorded events appended
     poorByAwakenings |-> 0]   \* PoorSleepQualityDetected events they caused

----------------------------------------------------------------------------
(* The slice a caller keeps.  DomainEvents() returns the slice held in the *)
(* entity, not a copy: the caller's slice and the entity's have one backing *)
(* array until the entity gets a new one, by an append that finds the      *)
(* array full or by ClearDomainEvents.                                     *)

\* No slice kept.
NoView == [held |-> FALSE, shared |-> FALSE, len |-> 0, own |-> <<>>,
           returned |-> <<>>]

\* The slice DomainEvents() returns for the buffer events: the same backing
\* array, the same length; returned records what the call returned.
KeptView(events) ==
    [held |-> TRUE, shared |-> TRUE, len |-> Len(events), own |-> <<>>,
     returned |-> events]

\* The capacity of a slice that append has grown, one element at a time,
\* from make([]DomainEvent, 0) to n elements: 0, 1, 2, 4, 4, 8, ...
Cap(n) ==
    IF n <= 2 THEN n
    ELSE IF n <= 4 THEN 4
    ELSE 8

\* The appends that take the length from m to n find the array full once.
Reallocates(m, n) == \E k \in m..(n - 1) : k = Cap(k)

\* The elements that stay in the array the entity has left.
Left(v, events) == [v EXCEPT !.shared = FALSE, !.own = SubSeq(events, 1, v.len)]

\* The kept slice after addDomainEvent took the buffer from old to new.
ViewAfterAppend(v, old, new) ==
    IF v.held /\ v.shared /\ Reallocates(Len(old), Len(new))
    THEN Left(v, old)
    ELSE v

\* The kept slice after ClearDomainEvents gave the entity a new array.
ViewAfterClear(v, old) ==
    IF v.held /\ v.shared THEN Left(v, old) ELSE v

\* No value returned.
NoValue == <<>>

\* The callers of the statement-by-statement StartTask.
Callers == {1, 2}

\* No caller has begun.  pc: the statement of StartTask the caller is at;
\* now: its local variable; slice: the slice header its append has read;
\* overlapped: the call began or went on while the other call was running.
NoThreads ==
    [c \in Callers |->
        [pc |-> "idle", now |-> 0, slice |-> <<>>, overlapped |-> FALSE]]

----------------------------------------------------------------------------
(* The steps *)

Init ==
    /\ te = NilEntry
    /\ se = NilEntry
    /\ now = 0
    /\ op = "none"
    /\ arg = <<>>
    /\ ret = NilErr
    /\ hist = NoHist
    /\ view = NoView
    /\ val = NoValue
    /\ threads = NoThreads
    /\ made = <<>>

Tick ==
    /\ now < MaxClock
    /\ now' = now + 1
    /\ UNCHANGED <<te, se, op, arg, ret, hist, view>>
    /\ UNCHANGED <<val, threads, made>>

CallNewTaskEntry ==
    /\ te.nil /\ se.nil
    /\ \E id \in TaskIDs, date \in Dates, dayNumber \in DayNumbers,
          keyTask \in KeyTasks, category \in Categories,
          stressBefore \in LevelInputs :
          LET r == NewTaskEntry(id, date, dayNumber, keyTask, category, stressBefore)
          IN  /\ te' = r.entry
              /\ op' = "NewTaskEntry"
              /\ arg' = [id |-> id, date |-> date, dayNumber |-> dayNumber,
                         keyTask |-> keyTask, category |-> category,
                         stressBefore |-> stressBefore]
              /\ ret' = r.err
    /\ UNCHANGED <<se, now, hist, view>>
    /\ val' = NoValue
    /\ UNCHANGED <<threads, made>>

CallStartTask ==
    /\ ~te.nil
    /\ LET r == TaskEntry_StartTask(te, now)
           out == Emitted(te.domainEvents, r.entry.domainEvents)
       IN  /\ Len(r.entry.domainEvents) <= MaxEvents
           /\ te' = r.entry
           /\ ret' = r.err
           /\ hist' = [hist EXCEPT
                         !.startOk = @ + (IF IsErr(r.err) THEN 0 ELSE 1),
                         !.taskStarted = @ + CountType(out, "TaskStarted")]
    /\ op' = "StartTask"
    /\ arg' = <<>>
    /\ UNCHANGED <<se, now>>
    /\ view' = ViewAfterAppend(view, te.domainEvents, te'.domainEvents)
    /\ val' = NoValue
    /\ UNCHANGED <<threads, made>>

CallUpdateDuration ==
    /\ ~te.nil
    /\ \E duration \in DurationInputs :
          LET r == TaskEntry_UpdateDuration(te, duration)
              out == Emitted(te.domainEvents, r.entry.domainEvents)
          IN  /\ te' = r.entry
              /\ ret' = r.err
              /\ arg' = [duration |-> duration]
              /\ hist' = [hist EXCEPT
                            !.taskStarted = @ + CountType(out, "TaskStarted")]
    /\ op' = "UpdateDuration"
    /\ UNCHANGED <<se, now, view>>
    /\ val' = NoValue
    /\ UNCHANGED <<threads, made>>

CallSetStressAfter ==
    /\ ~te.nil
    /\ \E stressLevel \in LevelInputs :
          LET e == TaskEntry_SetStressAfter(te, stressLevel, now)
              out == Emitted(te.domainEvents, e.domainEvents)
          IN  /\ Len(e.domainEvents) <= MaxEvents
              /\ te' = e
              /\ arg' = [stressLevel |-> stressLevel]
              /\ hist' = [hist EXCEPT
                            !.taskStarted = @ + CountType(out, "TaskStarted")]
    /\ op' = "SetStressAfter"
    /\ ret' = NilErr
    /\ UNCHANGED <<se, now>>
    /\ view' = ViewAfterAppend(view, te.domainEvents, te'.domainEvents)
    /\ val' = NoValue
    /\ UNCHANGED <<threads, made>>

CallCalculateStressReduction ==
    /\ ~te.nil
    /\ op' = "CalculateStressReduction"
    /\ arg' = <<>>
    /\ ret' = Value(TaskEntry_CalculateStressReduction(te))
    /\ UNCHANGED <<te, se, now, hist, view>>
    /\ val' = NoValue
    /\ UNCHANGED <<threads, made>>

CallAddNotes ==
    /\ ~te.nil
    /\ \E notes \in NotesInputs :
          LET e == TaskEntry_AddNotes(te, notes)
              out == Emitted(te.domainEvents, e.domainEvents)
          IN  /\ te' = e
              /\ arg' = [notes |-> notes]
              /\ hist' = [hist EXCEPT
                            !.taskStarted = @ + CountType(out, "TaskStarted")]
    /\ op' = "AddNotes"
    /\ ret' = NilErr
    /\ UNCHANGED <<se, now, view>>
    /\ val' = NoValue
    /\ UNCHANGED <<threads, made>>

CallTaskDomainEvents ==
    /\ ~te.nil
    /\ op' = "DomainEvents"
    /\ arg' = <<>>
    /\ ret' = NilErr
    /\ UNCHANGED <<te, se, now, hist, view>>
    /\ val' = NoValue
    /\ UNCHANGED <<threads, made>>

CallTaskClearDomainEvents ==
    /\ ~te.nil
    /\ te' = TaskEntry_ClearDomainEvents(te)
    /\ op' = "ClearDomainEvents"
    /\ arg' = <<>>
    /\ ret' = NilErr
    /\ UNCHANGED <<se, now, hist>>
    /\ view' = ViewAfterClear(view, te.domainEvents)
    /\ val' = NoValue
    /\ UNCHANGED <<threads, made>>

TaskNext ==
    \/ CallNewTaskEntry
    \/ CallStartTask
    \/ CallUpdateDuration
    \/ CallSetStressAfter
    \/ CallCalculateStressReduction
    \/ CallAddNotes
    \/ CallTaskDomainEvents
    \/ CallTaskClearDomainEvents

SleepHist(old, new, call) ==
    LET out == Emitted(old.domainEvents, new.domainEvents)
    IN  [hist EXCEPT
           !.awakeningCalls = @ + (IF call = "RecordNightAwakening" THEN 1 ELSE 0),
           !.awakeningsRecorded = @ + CountType(out, "NightAwakeningRecorded"),
           !.poorByAwakenings = @ + CountPoorByAwakenings(out)]

CallNewSleepEntry ==
    /\ te.nil /\ se.nil
    /\ \E id \in SleepIDs, date \in Dates, night \in Nights,
          sleepQuality \in QualityInputs :
          LET r == NewSleepEntry(id, date, night.bedtime, night.wakeTime,
                                 sleepQuality, now)
          IN  /\ se' = r.entry
              /\ arg' = [id |-> id, date |-> date, bedtime |-> night.bedtime,
                         wakeTime |-> night.wakeTime,
                         sleepQuality |-> sleepQuality]
              /\ ret' = r.err
    /\ op' = "NewSleepEntry"
    /\ UNCHANGED <<te, now, hist, view>>
    /\ val' = NoValue
    /\ UNCHANGED <<threads, made>>

CallSetSleepLatency ==
    /\ ~se.nil
    /\ \E latency \in LatencyInputs :
          LET r == SleepEntry_SetSleepLatency(se, latency, now)
          IN  /\ Len(r.entry.domainEvents) <= MaxEvents
              /\ se' = r.entry
              /\ arg' = [latency |-> latency]
              /\ ret' = r.err
              /\ hist' = SleepHist(se, r.entry, "SetSleepLatency")
    /\ op' = "SetSleepLatency"
    /\ UNCHANGED <<te, now>>
    /\ view' = ViewAfterAppend(view, se.domainEvents, se'.domainEvents)
    /\ val' = NoValue
    /\ UNCHANGED <<threads, made>>

CallRecordNightAwakening ==
    /\ ~se.nil
    /\ se.nightAwakenings < MaxAwakenings
    /\ \E t2 \in now..MaxClock :
          LET e == SleepEntry_RecordNightAwakening(se, now, t2)
          IN  /\ Len(e.domainEvents) <= MaxEvents
              /\ se' = e
              /\ now' = t2
              /\ hist' = SleepHist(se, e, "RecordNightAwakening")
    /\ op' = "RecordNightAwakening"
    /\ arg' = <<>>
    /\ ret' = NilErr
    /\ UNCHANGED te
    /\ view' = ViewAfterAppend(view, se.domainEvents, se'.domainEvents)
    /\ val' = NoValue
    /\ UNCHANGED <<threads, made>>

CallSetDaytimeSleepiness ==
    /\ ~se.nil
    /\ \E sleepiness \in SleepinessInputs :
          LET e == SleepEntry_SetDaytimeSleepiness(se, sleepiness, now)
          IN  /\ Len(e.domainEvents) <= MaxEvents
              /\ se' = e
              /\ arg' = [sleepiness |-> sleepiness]
              /\ hist' = SleepHist(se, e, "SetDaytimeSleepiness")
    /\ op' = "SetDaytimeSleepiness"
    /\ ret' = NilErr
    /\ UNCHANGED <<te, now>>
    /\ view' = ViewAfterAppend(view, se.domainEvents, se'.domainEvents)
    /\ val' = NoValue
    /\ UNCHANGED <<threads, made>>

CallUpdateSleepQuality ==
    /\ ~se.nil
    /\ \E quality \in QualityInputs, t2 \in now..MaxClock :
          LET e == SleepEntry_UpdateSleepQuality(se, quality, now, t2)
          IN  /\ Len(e.domainEvents) <= MaxEvents
              /\ se' = e
              /\ now' = t2
              /\ arg' = [quality |-> quality]
              /\ hist' = SleepHist(se, e, "UpdateSleepQuality")
    /\ op' = "UpdateSleepQuality"
    /\ ret' = NilErr
    /\ UNCHANGED te
    /\ view' = ViewAfterAppend(view, se.domainEvents, se'.domainEvents)
    /\ val' = NoValue
    /\ UNCHANGED <<threads, made>>

CallIsSleepHealthy ==
    /\ ~se.nil
    /\ op' = "IsSleepHealthy"
    /\ arg' = <<>>
    /\ ret' = Value(SleepEntry_IsSleepHealthy(se))
    /\ UNCHANGED <<te, se, now, hist, view>>
    /\ val' = NoValue
    /\ UNCHANGED <<threads, made>>

CallSleepDomainEvents ==
    /\ ~se.nil
    /\ op' = "DomainEvents"
    /\ arg' = <<>>
    /\ ret' = NilErr
    /\ UNCHANGED <<te, se, now, hist, view>>
    /\ val' = NoValue
    /\ UNCHANGED <<threads, made>>

CallSleepClearDomainEvents ==
    /\ ~se.nil
    /\ se' = SleepEntry_ClearDomainEvents(se)
    /\ op' = "ClearDomainEvents"
    /\ arg' = <<>>
    /\ ret' = NilErr
    /\ UNCHANGED <<te, now, hist>>
    /\ view' = ViewAfterClear(view, se.domainEvents)
    /\ val' = NoValue
    /\ UNCHANGED <<threads, made>>

SleepNext ==
    \/ CallNewSleepEntry
    \/ CallSetSleepLatency
    \/ CallRecordNightAwakening
    \/ CallSetDaytimeSleepiness
    \/ CallUpdateSleepQuality
    \/ CallIsSleepHealthy
    \/ CallSleepDomainEvents
    \/ CallSleepClearDomainEvents

Next ==
    \/ Tick
    \/ TaskNext
    \/ SleepNext

Spec == Init /\ [][Next]_vars

----------------------------------------------------------------------------
(* What the claims are stated with *)

\* The step is a call of the operation named name.
Called(name) ==
    /\ op' = name
    /\ ~UNCHANGED <<te, se, op, arg, ret, hist>>

\* The event buffer of the entity under observation.

Buffer ==
    IF ~te.nil THEN te.domainEvents
    ELSE IF ~se.nil THEN se.domainEvents
    ELSE <<>>

\* What DomainEvents() returns.
Returned ==
    IF ~te.nil THEN TaskEntry_DomainEvents(te)
    ELSE IF ~se.nil THEN SleepEntry_DomainEvents(se)
    ELSE <<>>

IsPrefix(s, t) == Len(s) <= Len(t) /\ SubSeq(t, 1, Len(s)) = s

Types(events) == [i \in 1..Len(events) |-> events[i].type]

\* wakeTime - bedtime, plus 24h if negative.
NightLength(e) ==
    LET d == e.wakeTime.unix - e.bedtime.unix
    IN  IF d < 0 THEN d + 24 * Hour ELSE d

----------------------------------------------------------------------------
(* A caller that keeps the slice DomainEvents() returned and writes to it. *)

\* The elements of the kept slice.
ViewElems ==
    IF view.shared THEN SubSeq(Buffer, 1, view.len) ELSE view.own

\* What a caller can put in an element: the nil DomainEvent.
ForgedEvents == {[type |-> "nil"]}

Swapped(events, i, j) ==
    [events EXCEPT ![i] = events[j], ![j] = events[i]]

\* The kept slice now holds events: if the array is shared, so does the
\* entity's buffer.
WriteThrough(events) ==
    IF view.shared
    THEN /\ IF ~te.nil
            THEN te' = [te EXCEPT !.domainEvents =
                           events \o SubSeq(@, view.len + 1, Len(@))]
                 /\ UNCHANGED se
            ELSE se' = [se EXCEPT !.domainEvents =
                           events \o SubSeq(@, view.len + 1, Len(@))]
                 /\ UNCHANGED te
         /\ UNCHANGED view
    ELSE /\ view' = [view EXCEPT !.own = events]
         /\ UNCHANGED <<te, se>>

\* events := entry.DomainEvents(), the result kept.
ConsumerKeep ==
    /\ ~te.nil \/ ~se.nil
    /\ view' = KeptView(Returned)
    /\ op' = "DomainEvents"
    /\ arg' = <<>>
    /\ ret' = NilErr
    /\ UNCHANGED <<te, se, now, hist>>
    /\ val' = NoValue
    /\ UNCHANGED <<threads, made>>

\* events[i] = x

ConsumerWrite ==
    /\ view.held
    /\ \E i \in 1..Len(ViewElems), x \in ForgedEvents :
          /\ WriteThrough([ViewElems EXCEPT ![i] = x])
          /\ arg' = [i |-> i, x |-> x]
    /\ op' = "ConsumerWrite"
    /\ ret' = NilErr
    /\ UNCHANGED <<now, hist>>
    /\ val' = NoValue
    /\ UNCHANGED <<threads, made>>

\* events[i], events[j] = events[j], events[i]

ConsumerSwap ==
    /\ view.held
    /\ \E i \in 1..Len(ViewElems), j \in 1..Len(ViewElems) :
          /\ i < j
          /\ WriteThrough(Swapped(ViewElems, i, j))
          /\ arg' = [i |-> i, j |-> j]
    /\ op' = "ConsumerSwap"
    /\ ret' = NilErr
    /\ UNCHANGED <<now, hist>>
    /\ val' = NoValue
    /\ UNCHANGED <<threads, made>>

\* The caller between the calls that make an entity, append to its buffer
\* and clear it.

ViewNext ==
    \/ CallNewTaskEntry
    \/ CallStartTask
    \/ CallSetStressAfter
    \/ CallTaskClearDomainEvents
    \/ CallNewSleepEntry
    \/ CallUpdateSleepQuality
    \/ CallSleepClearDomainEvents
    \/ ConsumerKeep
    \/ ConsumerWrite
    \/ ConsumerSwap

SpecView == Init /\ [][ViewNext]_vars

----------------------------------------------------------------------------
(* The value objects and the errors, made before the entity is. *)

\* The call name(a) returns the value r.value and the error r.err.
Returns(name, a, r) ==
    /\ te.nil /\ se.nil
    /\ op' = name
    /\ arg' = a
    /\ val' = r.value
    /\ ret' = r.err
    /\ UNCHANGED <<te, se, now, hist, view, threads, made>>

\* A value returned without an error.
Only(v) == [value |-> v, err |-> NilErr]

CallNewStressLevel ==
    \E level \in ScaleInputs :
        Returns("NewStressLevel", [level |-> level], NewStressLevel(level))

CallNewEnergyLevel ==
    \E level \in ScaleInputs :
        Returns("NewEnergyLevel", [level |-> level], NewEnergyLevel(level))

CallNewMoodLevel ==
    \E level \in ScaleInputs :
        Returns("NewMoodLevel", [level |-> level], NewMoodLevel(level))

CallNewSleepQuality ==
    \E quality \in ScaleInputs :
        Returns("NewSleepQuality", [quality |-> quality],
                NewSleepQuality(quality))

CallNewDaytimeSleepiness ==
    \E sleepiness \in ScaleInputs :
        Returns("NewDaytimeSleepiness", [sleepiness |-> sleepiness],
                NewDaytimeSleepiness(sleepiness))

CallStressLevelIsHigh ==
    \E sl \in ScaleInputs :
        Returns("StressLevel.IsHigh", [v |-> sl], Only(StressLevel_IsHigh(sl)))

CallEnergyLevelIsLow ==
    \E el \in ScaleInputs :
        Returns("EnergyLevel.IsLow", [v |-> el], Only(EnergyLevel_IsLow(el)))

CallMoodLevelIsPositive ==
    \E ml \in ScaleInputs :
        Returns("MoodLevel.IsPositive", [v |-> ml],
                Only(MoodLevel_IsPositive(ml)))

CallSleepQualityIsGood ==
    \E sq \in ScaleInputs :
        Returns("SleepQuality.IsGood", [v |-> sq], Only(SleepQuality_IsGood(sq)))

CallDaytimeSleepinessIsHigh ==
    \E ds \in ScaleInputs :
        Returns("DaytimeSleepiness.IsHigh", [v |-> ds],
                Only(DaytimeSleepiness_IsHigh(ds)))

CallNewTaskCategory ==
    \E category \in CategoryInputs :
        Returns("NewTaskCategory", [category |-> category],
                NewTaskCategory(category))

CallAllTaskCategories ==
    Returns("AllTaskCategories", <<>>, Only(AllTaskCategories))

\* TaskCategory(category).IsValid(), the value made by a cast.
CallTaskCategoryIsValid ==
    \E tc \in CategoryInputs :
        Returns("TaskCategory.IsValid", [tc |-> tc],
                Only(TaskCategory_IsValid(tc)))

CallNewDomainError ==
    \E message \in TextInputs :
        Returns("NewDomainError", [message |-> message],
                [value |-> NoValue, err |-> NewDomainError(message)])

CallNewDomainErrorWithCode ==
    \E message \in TextInputs, code \in TextInputs :
        Returns("NewDomainErrorWithCode", [message |-> message, code |-> code],
                [value |-> NoValue,
                 err |-> NewDomainErrorWithCode(message, code)])

CallNewValidationError ==
    \E field \in TextInputs, message \in TextInputs :
        Returns("NewValidationError", [message |-> message, field |-> field],
                [value |-> NoValue, err |-> NewValidationError(field, message)])

CallNewNotFoundError ==
    \E resource \in TextInputs, id \in TextInputs :
        Returns("NewNotFoundError", [resource |-> resource, id |-> id],
                [value |-> NoValue, err |-> NewNotFoundError(resource, id)])

ValueNext ==
    \/ CallNewStressLevel
    \/ CallNewEnergyLevel
    \/ CallNewMoodLevel
    \/ CallNewSleepQuality
    \/ CallNewDaytimeSleepiness
    \/ CallStressLevelIsHigh
    \/ CallEnergyLevelIsLow
    \/ CallMoodLevelIsPositive
    \/ CallSleepQualityIsGood
    \/ CallDaytimeSleepinessIsHigh
    \/ CallNewTaskCategory
    \/ CallAllTaskCategories
    \/ CallTaskCategoryIsValid
    \/ CallNewDomainError
    \/ CallNewDomainErrorWithCode
    \/ CallNewValidationError
    \/ CallNewNotFoundError

\* The value objects and the errors alone.
SpecValues == Init /\ [][ValueNext]_vars

\* The value objects, the errors and the entity made from them.
ErrorsNext ==
    \/ ValueNext
    \/ Next

SpecErrors == Init /\ [][ErrorsNext]_vars

\* The five constructors of a scale, and the integer each was given.
ScaleConstructors ==
    {"NewStressLevel", "NewEnergyLevel", "NewMoodLevel", "NewSleepQuality",
     "NewDaytimeSleepiness"}

ScaleArg ==
    IF op = "NewSleepQuality" THEN arg.quality
    ELSE IF op = "NewDaytimeSleepiness" THEN arg.sleepiness
    ELSE arg.level

\* The constructors of pkg/errors.
ErrorConstructors ==
    {"NewDomainError", "NewDomainErrorWithCode", "NewValidationError",
     "NewNotFoundError"}

----------------------------------------------------------------------------
(* Two callers of StartTask on one TaskEntry, with no lock: the statements *)
(* of the two calls interleave.  The append of addDomainEvent reads the    *)
(* slice te.domainEvents and then stores the slice with the event added.   *)

Running(c) == threads[c].pc \notin {"idle", "done"}

\* StartTask whose check of the started flag never fails.
Mutant_StartTaskAlreadyStarted_Never(e) == FALSE

\* if te.started
StartTaskAlreadyStarted(e) == e.started

\* The call of caller c moves from the statement at to the statement to.
Goes(c, at, to) ==
    /\ ~te.nil
    /\ threads[c].pc = at
    /\ threads' = [threads EXCEPT ![c].pc = to]

\* Caller c calls te.StartTask().
RaceCall ==
    \E c \in Callers :
        /\ ~te.nil
        /\ threads[c].pc = "idle"
        /\ threads' =
              [d \in Callers |->
                  IF d = c
                  THEN [threads[d] EXCEPT
                          !.pc = "check",
                          !.overlapped = \E o \in Callers \ {c} : Running(o)]
                  ELSE [threads[d] EXCEPT !.overlapped = @ \/ Running(d)]]
        /\ UNCHANGED <<te, se, now, op, arg, ret, hist, view, val, made>>

\* if te.started { return errors.NewDomainError("task already started") }
RaceCheck ==
    \E c \in Callers :
        /\ ~te.nil
        /\ threads[c].pc = "check"
        /\ IF StartTaskAlreadyStarted(te)
           THEN /\ Goes(c, "check", "done")
                /\ op' = "StartTask"
                /\ arg' = [caller |-> c]
                /\ ret' = NewDomainError("task already started")
           ELSE /\ Goes(c, "check", "now")
                /\ UNCHANGED <<op, arg, ret>>
        /\ UNCHANGED <<te, se, now, hist, view, val, made>>

\* now := time.Now()
RaceNow ==
    \E c \in Callers :
        /\ ~te.nil
        /\ threads[c].pc = "now"
        /\ threads' = [threads EXCEPT ![c].pc = "started", ![c].now = now]
        /\ UNCHANGED <<te, se, now, op, arg, ret, hist, view, val, made>>

\* te.started = true
RaceSetStarted ==
    \E c \in Callers :
        /\ Goes(c, "started", "startTime")
        /\ te' = [te EXCEPT !.started = TRUE]
        /\ UNCHANGED <<se, now, op, arg, ret, hist, view, val, made>>

\* te.startTime = &now
RaceSetStartTime ==
    \E c \in Callers :
        /\ Goes(c, "startTime", "append")
        /\ te' = [te EXCEPT !.startTime = <<threads[c].now>>]
        /\ UNCHANGED <<se, now, op, arg, ret, hist, view, val, made>>

\* append(te.domainEvents, ...): the slice is read.
RaceAppendRead ==
    \E c \in Callers :
        /\ ~te.nil
        /\ threads[c].pc = "append"
        /\ threads' = [threads EXCEPT ![c].pc = "store",
                                      ![c].slice = te.domainEvents]
        /\ UNCHANGED <<te, se, now, op, arg, ret, hist, view, val, made>>

\* te.domainEvents = append(...), and return nil.
RaceAppendStore ==
    \E c \in Callers :
        /\ Goes(c, "store", "done")
        /\ te' = [te EXCEPT !.domainEvents =
                     threads[c].slice \o
                     <<TaskStartedEvent(te.id, threads[c].now)>>]
        /\ hist' = [hist EXCEPT !.startOk = @ + 1, !.taskStarted = @ + 1]
        /\ op' = "StartTask"
        /\ arg' = [caller |-> c]
        /\ ret' = NilErr
        /\ UNCHANGED <<se, now, view, val, made>>

RaceNext ==
    \/ Tick
    \/ CallNewTaskEntry
    \/ RaceCall
    \/ RaceCheck
    \/ RaceNow
    \/ RaceSetStarted
    \/ RaceSetStartTime
    \/ RaceAppendRead
    \/ RaceAppendStore

SpecRace == Init /\ [][RaceNext]_vars

\* Both calls have returned.
BothReturned == \A c \in Callers : threads[c].pc = "done"

\* The two calls ran at the same time.
Overlapped == \E c \in Callers : threads[c].overlapped

----------------------------------------------------------------------------
(* package events: BaseEvent *)

DigitChars == <<"0", "1", "2", "3", "4", "5", "6", "7", "8", "9">>

\* The decimal digits of n >= 0, the most significant first.
RECURSIVE FormatUint(_)
FormatUint(n) ==
    IF n < 10
    THEN <<DigitChars[n + 1]>>
    ELSE Append(FormatUint(n \div 10), DigitChars[(n % 10) + 1])

\* strconv.FormatInt(i, 10)
strconv_FormatInt(i) ==
    IF i < 0 THEN <<"-">> \o FormatUint(0 - i) ELSE FormatUint(i)

\* "event-" + strconv.FormatInt(time.Now().UnixNano(), 10), where unixNano is
\* the reading of the clock at the call.
generateEventID(unixNano) ==
    <<"e", "v", "e", "n", "t", "-">> \o strconv_FormatInt(unixNano)

\* NewBaseEvent reads the clock twice: at for the ID, then occurredAt.
NewBaseEvent(eventType, aggregateID, at, occurredAt) ==
    [ID |-> generateEventID(at), Type |-> eventType,
     AggregateId |-> aggregateID, OccurredAt |-> occurredAt, Version |-> 1]

BaseEvent_EventID(be) == be.ID

\* The event types and aggregate IDs NewBaseEvent is called with.
EventTypes == {"TaskStarted", "StressLevelChanged", "SleepEntryCreated"}
AggregateIDs == {"task-1", "sleep-1"}

\* NewBaseEvent(eventType, aggregateID); the clock may move on between its
\* two readings.
CallNewBaseEvent ==
    /\ te.nil /\ se.nil
    /\ Len(made) < MaxEvents
    /\ \E eventType \in EventTypes, aggregateID \in AggregateIDs,
          occurredAt \in {now, now + 1} \cap (0..MaxClock) :
          LET be == NewBaseEvent(eventType, aggregateID, now, occurredAt)
          IN  /\ made' = Append(made, be)
              /\ val' = be
              /\ arg' = [eventType |-> eventType, aggregateID |-> aggregateID]
              /\ now' = occurredAt
    /\ op' = "NewBaseEvent"
    /\ ret' = NilErr
    /\ UNCHANGED <<te, se, hist, view, threads>>

EventsNext ==
    \/ Tick
    \/ CallNewBaseEvent

SpecEvents == Init /\ [][EventsNext]_vars

----------------------------------------------------------------------------
(* NewSleepEntry over a grid of bedtimes and wake times *)

\* The locations the times are given in.
Locations == {UTC, Kiritimati, BakerIsland}

\* Wall clocks of two consecutive days: midnight, half past midnight, seven
\* in the morning and eleven in the evening, in each location.
GridTimes ==
    { Clock(d, hm[1], hm[2], off) :
        d \in {1, 2},
        hm \in {<<0, 0>>, <<0, 30>>, <<7, 0>>, <<23, 0>>},
        off \in Locations }

\* NewSleepEntry called with any two times of the grid.
CallNewSleepEntryOnGrid ==
    /\ te.nil /\ se.nil
    /\ \E id \in SleepIDs, date \in Dates, bedtime \in GridTimes,
          wakeTime \in GridTimes, sleepQuality \in QualityInputs :
          LET r == NewSleepEntry(id, date, bedtime, wakeTime, sleepQuality,
                                 now)
          IN  /\ se' = r.entry
              /\ arg' = [id |-> id, date |-> date, bedtime |-> bedtime,
                         wakeTime |-> wakeTime,
                         sleepQuality |-> sleepQuality]
              /\ ret' = r.err
    /\ op' = "NewSleepEntry"
    /\ val' = NoValue
    /\ UNCHANGED <<te, now, hist, view, threads, made>>

NightsNext ==
    \/ Tick
    \/ CallNewSleepEntryOnGrid

SpecNights == Init /\ [][NightsNext]_vars

\* The bedtime and the wake time of the call are in one location.
SameLocation == arg.bedtime.off = arg.wakeTime.off

----------------------------------------------------------------------------
(* C1: a StartTask call returns no error if and only if the entry was not  *)
(* started before it; a call without error sets started, sets the start    *)
(* time to the clock's reading and appends one TaskStarted event, with the *)
(* entry's ID and that reading, at the end of the buffer.                  *)
C1_StartTask ==
    [][Called("StartTask") =>
         /\ ~IsErr(ret') <=> ~te.started
         /\ ~IsErr(ret') =>
              /\ te'.started
              /\ te'.startTime = <<now>>
              /\ te'.domainEvents =
                    te.domainEvents \o
                    <<[type |-> "TaskStarted", taskEntryID |-> te.id,
                       occurredOn |-> now]>>]_vars

C1_Witness ==
    /\ op = "StartTask"
    /\ ~IsErr(ret)
    /\ te.started
    /\ te.startTime = <<1>>
    /\ Types(te.domainEvents) = <<"StressLevelChanged", "TaskStarted">>

(* C2: over the life of a TaskEntry at most one StartTask call returns no  *)
(* error and at most one TaskStarted event is ever appended, the cleared   *)
(* ones counted; every StartTask call after the one that succeeded returns *)
(* an error.                                                               *)
C2_StartOnce ==
    /\ [](hist.startOk <= 1 /\ hist.taskStarted <= 1)
    /\ [][Called("StartTask") /\ hist.startOk >= 1 => IsErr(ret')]_vars

C2_Witness ==
    /\ op = "StartTask"
    /\ IsErr(ret)
    /\ hist.startOk = 1
    /\ hist.taskStarted = 1
    /\ te.domainEvents = <<>>
    /\ te.notes # ""
    /\ te.stressAfter # 0

(* C3: a call that returns an error leaves the entity as it was: no field  *)
(* changes and no event is appended.  So do StartTask on a started entry,  *)
(* UpdateDuration on an entry not started or with a negative duration, and *)
(* SetSleepLatency with a latency below 0 or above 2h.                     *)
C3_ErrorLeavesEntity ==
    [][/\ IsErr(ret') => UNCHANGED <<te, se>>
       /\ Called("StartTask") /\ te.started => UNCHANGED te
       /\ Called("UpdateDuration") /\ (~te.started \/ arg'.duration < 0)
             => UNCHANGED te
       /\ Called("SetSleepLatency")
             /\ (arg'.latency < 0 \/ arg'.latency > 2 * Hour)
             => UNCHANGED se]_vars

C3_Witness ==
    /\ op = "SetSleepLatency"
    /\ IsErr(ret)
    /\ arg.latency > 2 * Hour
    /\ se.sleepLatency = 2 * Hour
    /\ Len(se.domainEvents) = 2

(* C4: UpdateDuration(d) returns an error if and only if the entry is not  *)
(* started or d is negative; otherwise the active duration becomes d, zero *)
(* included.  It never appends an event.                                   *)
C4_UpdateDuration ==
    [][Called("UpdateDuration") =>
         /\ IsErr(ret') <=> (~te.started \/ arg'.duration < 0)
         /\ ~IsErr(ret') => te'.activeDuration = arg'.duration
         /\ te'.domainEvents = te.domainEvents]_vars

C4_Witness ==
    /\ op = "UpdateDuration"
    /\ ~IsErr(ret)
    /\ arg.duration = 0
    /\ te.activeDuration = 0
    /\ Len(te.domainEvents) = 2

(* C5: for both entities the buffer holds the events appended since the    *)
(* last ClearDomainEvents, in the order of appending: DomainEvents()       *)
(* returns the buffer and leaves it as it is, a step that is not a         *)
(* ClearDomainEvents only extends the buffer at its end, and               *)
(* ClearDomainEvents leaves it empty.                                      *)
C5_Buffer ==
    [][/\ Called("DomainEvents") => Returned' = Buffer /\ Buffer' = Buffer
       /\ Called("ClearDomainEvents") => Buffer' = <<>> /\ Returned' = <<>>
       /\ ~Called("ClearDomainEvents") =>
             /\ IsPrefix(Buffer, Buffer')
             /\ Buffer' = Buffer \o Emitted(Buffer, Buffer')
             /\ Returned' = Buffer']_vars

C5_Witness ==
    /\ op = "DomainEvents"
    /\ Types(Returned) = <<"SleepEntryCreated", "SleepLatencyChanged">>

(* C6: the k-th RecordNightAwakening call on an entry sets the counter to  *)
(* k and appends a NightAwakeningRecorded event with the count k, followed *)
(* by a PoorSleepQualityDetected event exactly when k >= 3; three calls    *)
(* give three NightAwakeningRecorded events and one                        *)
(* PoorSleepQualityDetected event.                                         *)
C6_NightAwakenings ==
    /\ [](/\ hist.awakeningsRecorded = hist.awakeningCalls
          /\ hist.awakeningCalls <= 2 => hist.poorByAwakenings = 0
          /\ hist.awakeningCalls = 3 => hist.poorByAwakenings = 1)
    /\ [][Called("RecordNightAwakening") =>
            LET k == hist'.awakeningCalls
                out == Emitted(se.domainEvents, se'.domainEvents)
            IN  /\ k = hist.awakeningCalls + 1
                /\ se'.nightAwakenings = k
                /\ se'.domainEvents = se.domainEvents \o out
                /\ Types(out) =
                     IF k >= 3
                     THEN <<"NightAwakeningRecorded", "PoorSleepQualityDetected">>
                     ELSE <<"NightAwakeningRecorded">>
                /\ out[1].awakeningNumber = k
                /\ out[1].sleepEntryID = se.id]_vars

C6_Witness ==
    /\ op = "RecordNightAwakening"
    /\ hist.awakeningCalls = 3
    /\ se.nightAwakenings = 3
    /\ Types(se.domainEvents) =
          <<"NightAwakeningRecorded", "PoorSleepQualityDetected">>

(* C7: in every state of a SleepEntry totalSleepHours is the wake time     *)
(* minus the bedtime, plus 24h if negative, minus the current sleep        *)
(* latency, in hours.                                                      *)
C7_TotalFollowsLatency ==
    ~se.nil =>
        se.totalSleepHours = Duration_Hours(NightLength(se) - se.sleepLatency)

(* C8: SetSleepLatency leaves totalSleepHours as it is, whether it returns *)
(* an error or not: the value computed at construction, with no latency,   *)
(* is what TotalSleepHours() returns and IsSleepHealthy() tests for the    *)
(* rest of the entry's life.                                               *)
C8_LatencyLeavesTotal ==
    /\ [](~se.nil =>
            /\ SleepEntry_TotalSleepHours(se) = Duration_Hours(NightLength(se))
            /\ SleepEntry_IsSleepHealthy(se) <=>
                  /\ HoursGE(Duration_Hours(NightLength(se)), 7)
                  /\ HoursLE(Duration_Hours(NightLength(se)), 9)
                  /\ se.sleepQuality >= 6
                  /\ se.nightAwakenings <= 1)
    /\ [][Called("SetSleepLatency") =>
            se'.totalSleepHours = se.totalSleepHours]_vars

C8_Witness ==
    /\ op = "SetSleepLatency"
    /\ ~IsErr(ret)
    /\ se.sleepLatency = 2 * Hour
    /\ se.totalSleepHours = [num |-> 15, den |-> 2]
    /\ SleepEntry_IsSleepHealthy(se)

(* C9: NewSleepEntry rejects a pair only if the wake time is before the    *)
(* bedtime even with 24h added; a wake time less than 24h before the       *)
(* bedtime is accepted and its total is computed with the 24h added.       *)
C9_RolloverAccepted ==
    op = "NewSleepEntry" =>
        LET d == arg.wakeTime.unix - arg.bedtime.unix
        IN  /\ IsErr(ret) => d + 24 * Hour < 0
            /\ (d < 0 /\ d + 24 * Hour >= 0) =>
                  /\ ~IsErr(ret)
                  /\ se.totalSleepHours = Duration_Hours(d + 24 * Hour)

(* C10 as claimed: every entry NewSleepEntry returns has a totalSleepHours *)
(* of the wake time minus the bedtime, in hours, and a buffer of one       *)
(* event, a SleepEntryCreated with the entry's ID and that total.          *)
C10_Original ==
    (op = "NewSleepEntry" /\ ~IsErr(ret)) =>
        LET d == arg.wakeTime.unix - arg.bedtime.unix
        IN  /\ se.totalSleepHours = Duration_Hours(d)
            /\ Len(se.domainEvents) = 1
            /\ se.domainEvents[1].type = "SleepEntryCreated"
            /\ se.domainEvents[1].sleepEntryID = arg.id
            /\ se.domainEvents[1].totalHours = Duration_Hours(d)

(* C10 as amended: every entry NewSleepEntry returns has a totalSleepHours *)
(* of the wake time minus the bedtime, plus 24h when the wake time is      *)
(* before the bedtime, in hours (00:30 to 08:00 gives 7.5), and a buffer   *)
(* of one event, a SleepEntryCreated with the entry's ID and that total.   *)
C10_NewSleepEntry ==
    (op = "NewSleepEntry" /\ ~IsErr(ret)) =>
        LET d == arg.wakeTime.unix - arg.bedtime.unix
            total == Duration_Hours(IF d < 0 THEN d + 24 * Hour ELSE d)
        IN  /\ se.id = arg.id
            /\ se.sleepLatency = 0
            /\ se.totalSleepHours = total
            /\ d = 7 * Hour + 30 * Minute => total = [num |-> 15, den |-> 2]
            /\ Len(se.domainEvents) = 1
            /\ se.domainEvents[1].type = "SleepEntryCreated"
            /\ se.domainEvents[1].sleepEntryID = arg.id
            /\ se.domainEvents[1].totalHours = total

C10_Witness ==
    /\ op = "NewSleepEntry"
    /\ ~IsErr(ret)
    /\ arg.wakeTime.unix < arg.bedtime.unix
    /\ se.totalSleepHours = [num |-> 45, den |-> 2]
    /\ se.domainEvents[1].totalHours = [num |-> 45, den |-> 2]

(* C11: SetSleepLatency(d) returns an error if and only if d < 0 or        *)
(* d > 2h; 0 and 2h are accepted, and a call without error stores d.  The  *)
(* stored latency is within 0..2h in every state.                          *)
C11_LatencyRange ==
    /\ [](~se.nil => se.sleepLatency >= 0 /\ se.sleepLatency <= 2 * Hour)
    /\ [][Called("SetSleepLatency") =>
            /\ IsErr(ret') <=> (arg'.latency < 0 \/ arg'.latency > 2 * Hour)
            /\ arg'.latency \in {0, 2 * Hour} => ~IsErr(ret')
            /\ ~IsErr(ret') => se'.sleepLatency = arg'.latency]_vars

C11_Witness ==
    /\ op = "SetSleepLatency"
    /\ ~IsErr(ret)
    /\ arg.latency = 2 * Hour
    /\ se.sleepLatency = 2 * Hour
    /\ Len(se.domainEvents) = 1

(* C12: a SetSleepLatency(d) call without error appends one                *)
(* SleepLatencyChanged event, with the latency held before the call and d, *)
(* when the two differ, and no event when they are equal.                  *)
C12_LatencyEvent ==
    [][Called("SetSleepLatency") /\ ~IsErr(ret') =>
         IF arg'.latency # se.sleepLatency
         THEN se'.domainEvents =
                 se.domainEvents \o
                 <<[type |-> "SleepLatencyChanged", sleepEntryID |-> se.id,
                    oldLatency |-> se.sleepLatency,
                    newLatency |-> arg'.latency, occurredOn |-> now]>>
         ELSE se'.domainEvents = se.domainEvents]_vars

\* The latency 2h set, the buffer cleared, the latency 2h set again.
C12_Witness ==
    /\ op = "SetSleepLatency"
    /\ ~IsErr(ret)
    /\ arg.latency = 2 * Hour
    /\ se.sleepLatency = 2 * Hour
    /\ se.domainEvents = <<>>

(* C13: SetDaytimeSleepiness(level) stores the level, and appends one      *)
(* DaytimeSleepinessChanged event if and only if the level differs by 3 or *)
(* more from the level held before the call; steps of less than 3 append   *)
(* no event however far they take the level.                               *)
C13_SleepinessEvent ==
    [][Called("SetDaytimeSleepiness") =>
         /\ se'.daytimeSleepiness = arg'.sleepiness
         /\ IF Abs(arg'.sleepiness - se.daytimeSleepiness) >= 3
            THEN se'.domainEvents =
                    se.domainEvents \o
                    <<[type |-> "DaytimeSleepinessChanged",
                       sleepEntryID |-> se.id,
                       oldSleepiness |-> se.daytimeSleepiness,
                       newSleepiness |-> arg'.sleepiness,
                       occurredOn |-> now]>>
            ELSE se'.domainEvents = se.domainEvents]_vars

\* From 0 to 1 to 3 on an entry whose buffer was never cleared: no event.
C13_Witness ==
    /\ op = "SetDaytimeSleepiness"
    /\ arg.sleepiness = 3
    /\ se.daytimeSleepiness = 3
    /\ Types(se.domainEvents) = <<"SleepEntryCreated">>

(* C14: UpdateSleepQuality(q) stores q and appends one SleepQualityUpdated *)
(* event with the quality held before and q, also when the two are equal;  *)
(* a PoorSleepQualityDetected event follows it at once if and only if      *)
(* q <= 3.                                                                 *)
C14_QualityEvents ==
    [][Called("UpdateSleepQuality") =>
         LET out == Emitted(se.domainEvents, se'.domainEvents)
         IN  /\ se'.sleepQuality = arg'.quality
             /\ se'.domainEvents = se.domainEvents \o out
             /\ Types(out) =
                  IF arg'.quality <= 3
                  THEN <<"SleepQualityUpdated", "PoorSleepQualityDetected">>
                  ELSE <<"SleepQualityUpdated">>
             /\ out[1].oldQuality = se.sleepQuality
             /\ out[1].newQuality = arg'.quality]_vars

C14_Witness ==
    /\ op = "UpdateSleepQuality"
    /\ arg.quality = 3
    /\ Types(se.domainEvents) =
          <<"SleepQualityUpdated", "PoorSleepQualityDetected">>
    /\ se.domainEvents[1].oldQuality = 3
    /\ se.domainEvents[1].newQuality = 3

(* C15: SetStressAfter(level) can be called on every TaskEntry, started or *)
(* not; each call returns no error, stores the level as stressAfter and    *)
(* appends exactly one StressLevelChanged event, also when the level is    *)
(* the stressAfter already held.                                           *)
C15_SetStressAfter ==
    /\ [](~te.nil /\ Len(te.domainEvents) < MaxEvents =>
             ENABLED CallSetStressAfter)
    /\ [][Called("SetStressAfter") =>
            /\ ~IsErr(ret')
            /\ te'.stressAfter = arg'.stressLevel
            /\ te'.domainEvents =
                  te.domainEvents \o
                  <<[type |-> "StressLevelChanged", taskEntryID |-> te.id,
                     stressBefore |-> te.stressBefore,
                     stressAfter |-> arg'.stressLevel,
                     occurredOn |-> now]>>]_vars

\* The same level set twice on an entry that was never started.
C15_Witness ==
    /\ op = "SetStressAfter"
    /\ ~te.started
    /\ Types(te.domainEvents) = <<"StressLevelChanged", "StressLevelChanged">>
    /\ te.domainEvents[1].stressAfter = 4
    /\ te.domainEvents[2].stressAfter = 4
    /\ te.stressAfter = 4

(* C16: IsSleepHealthy() returns true if and only if the total sleep hours *)
(* are within 7..9, the sleep quality is at least 6 and the night          *)
(* awakenings are at most 1; the call changes no field and appends no      *)
(* event.                                                                  *)
C16_IsSleepHealthy ==
    [][Called("IsSleepHealthy") =>
         /\ ret'.value <=>
               /\ 7 * se.totalSleepHours.den <= se.totalSleepHours.num
               /\ se.totalSleepHours.num <= 9 * se.totalSleepHours.den
               /\ se.sleepQuality >= 6
               /\ se.nightAwakenings <= 1
         /\ UNCHANGED <<te, se, now, hist>>]_vars

\* Healthy with one awakening.
C16_Witness ==
    /\ op = "IsSleepHealthy"
    /\ ret.value
    /\ se.nightAwakenings = 1
    /\ se.sleepQuality = 6

(* C17: CalculateStressReduction() returns stressBefore minus the level of *)
(* the latest SetStressAfter call, or stressBefore minus 0 when there was  *)
(* none; the result is within -10..10, is negative when the stress went    *)
(* up, and the call changes no state.                                      *)
C17_StressReduction ==
    /\ [](~te.nil =>
            /\ TaskEntry_CalculateStressReduction(te) >= -10
            /\ TaskEntry_CalculateStressReduction(te) <= 10
            /\ te.stressAfter > te.stressBefore =>
                  TaskEntry_CalculateStressReduction(te) < 0)
    /\ [][/\ Called("NewTaskEntry") /\ ~IsErr(ret') =>
               TaskEntry_CalculateStressReduction(te') = arg'.stressBefore - 0
          /\ Called("SetStressAfter") =>
               TaskEntry_CalculateStressReduction(te') =
                  te.stressBefore - arg'.stressLevel
          /\ ~te.nil /\ ~Called("SetStressAfter") =>
               TaskEntry_CalculateStressReduction(te') =
                  TaskEntry_CalculateStressReduction(te)
          /\ Called("CalculateStressReduction") =>
               /\ ret'.value = TaskEntry_CalculateStressReduction(te)
               /\ UNCHANGED <<te, se, now, hist>>]_vars

\* The stress went from 0 to 10: a reduction of -10.
C17_Witness ==
    /\ op = "CalculateStressReduction"
    /\ te.stressBefore = 0
    /\ te.stressAfter = 10
    /\ ret.value = -10

(* C18: NewTaskEntry returns an error and no entry if and only if keyTask  *)
(* is empty or dayNumber < 1; otherwise the entry holds the id, date, day  *)
(* number, key task, category and stressBefore given, is not started, has  *)
(* no start time and an empty event buffer.                                *)
C18_NewTaskEntry ==
    op = "NewTaskEntry" =>
        /\ IsErr(ret) <=> (arg.keyTask = "" \/ arg.dayNumber < 1)
        /\ IsErr(ret) => te = NilEntry
        /\ ~IsErr(ret) =>
              /\ ~te.nil
              /\ te.id = arg.id
              /\ te.date = arg.date
              /\ te.dayNumber = arg.dayNumber
              /\ te.keyTask = arg.keyTask
              /\ te.category = arg.category
              /\ te.stressBefore = arg.stressBefore
              /\ ~te.started
              /\ te.startTime = <<>>
              /\ te.domainEvents = <<>>

C18_Witness ==
    /\ op = "NewTaskEntry"
    /\ ~IsErr(ret)
    /\ arg.dayNumber = 1
    /\ arg.keyTask = "write the report"
    /\ te.stressBefore = 10

(* C19: the sequence DomainEvents() returns is a read-only view: a caller  *)
(* that overwrites or reorders elements of the sequence it was returned    *)
(* does not change the events the entity holds, and a later DomainEvents() *)
(* call returns what it returned before.                                   *)
C19_ReadOnlyView ==
    [][ConsumerWrite \/ ConsumerSwap =>
         /\ Buffer' = Buffer
         /\ Returned' = Returned]_vars

(* C20: a caller that calls DomainEvents() and then ClearDomainEvents()    *)
(* loses no event: every event ClearDomainEvents removes was in the        *)
(* sequence the preceding DomainEvents() call returned, also when a call   *)
(* between the two appended an event.                                      *)
C20_DrainReturnsAll ==
    [][view.held /\ (CallTaskClearDomainEvents \/ CallSleepClearDomainEvents) =>
         \A i \in 1..Len(Buffer) :
            \/ Buffer[i] \in ForgedEvents
            \/ \E j \in 1..Len(view.returned) : view.returned[j] = Buffer[i]]_vars

(* C21: each of the five scale constructors, given any integer n, returns  *)
(* no error if and only if 0 <= n <= 10; without error Int() of the value  *)
(* is n, and with an error the value is the zero value.                    *)
C21_ScaleConstructors ==
    op \in ScaleConstructors =>
        /\ ~IsErr(ret) <=> (0 <= ScaleArg /\ ScaleArg <= 10)
        /\ ~IsErr(ret) => Scale_Int(val) = ScaleArg
        /\ IsErr(ret) => val = 0

C21_Witness ==
    /\ op = "NewMoodLevel"
    /\ arg.level = 10
    /\ ~IsErr(ret)
    /\ val = 10

(* C22: the error a scale constructor returns for an integer outside 0..10 *)
(* is a ValidationError: IsValidationError is true for it and              *)
(* IsDomainError is false.                                                 *)
C22_ScaleErrorIsValidation ==
    op \in ScaleConstructors /\ IsErr(ret) =>
        /\ IsValidationError(ret)
        /\ ~IsDomainError(ret)

(* C23: every error that a constructor or mutator of an entity or of a     *)
(* value object returns is a DomainError: IsDomainError is true for it,    *)
(* IsValidationError and IsNotFoundError are false, and its code is        *)
(* "DOMAIN_ERROR".                                                         *)
C23_ErrorsAreDomainErrors ==
    op \notin ErrorConstructors /\ IsErr(ret) =>
        /\ IsDomainError(ret)
        /\ ~IsValidationError(ret)
        /\ ~IsNotFoundError(ret)
        /\ DomainError_Code(ret) = "DOMAIN_ERROR"

\* An entity made from value objects returns an error for its latency.
C23_Witness ==
    /\ op = "SetSleepLatency"
    /\ IsErr(ret)
    /\ IsDomainError(ret)
    /\ arg.latency > 2 * Hour

(* C24: NewTaskCategory returns no error if and only if the string, with   *)
(* the surrounding white space trimmed and lower-cased, is one of the six  *)
(* canonical tokens, and then returns that token; for every other string   *)
(* it returns an error and the empty category.                             *)
C24_NewTaskCategory ==
    op = "NewTaskCategory" =>
        LET c == strings_ToLower(strings_TrimSpace(arg.category))
            canonical == \E i \in 1..Len(AllTaskCategories) :
                            AllTaskCategories[i] = c
        IN  /\ ~IsErr(ret) <=> canonical
            /\ ~IsErr(ret) => val = c
            /\ IsErr(ret) => val = <<>>
            /\ arg.category \in {<<>>, <<"r", "a", "b">>, <<"w", "o", "r", "k">>}
                  => IsErr(ret)

\* " Rabota " gives the token "rabota".
C24_Witness ==
    /\ op = "NewTaskCategory"
    /\ arg.category = <<" ", "R", "a", "b", "o", "t", "a", " ">>
    /\ ~IsErr(ret)
    /\ val = <<"r", "a", "b", "o", "t", "a">>

(* C25: AllTaskCategories() returns the same six tokens, no two of them    *)
(* equal, in the same order on every call; IsValid() is true of a          *)
(* TaskCategory exactly when it is one of the six, so it is true of every  *)
(* value NewTaskCategory returns without error and false of another string *)
(* cast to TaskCategory.                                                   *)
C25_Categories ==
    /\ op = "AllTaskCategories" =>
          /\ val = <<TaskCategoryWork, TaskCategoryStudy, TaskCategoryPersonal,
                     TaskCategoryHealth, TaskCategoryHobbies, TaskCategoryOther>>
          /\ Len(val) = 6
          /\ \A i, j \in 1..Len(val) : val[i] = val[j] => i = j
    /\ op = "TaskCategory.IsValid" =>
          (val <=> \E i \in 1..Len(AllTaskCategories) :
                      AllTaskCategories[i] = arg.tc)
    /\ op = "NewTaskCategory" /\ ~IsErr(ret) => TaskCategory_IsValid(val)

\* "RABOTA" cast to TaskCategory is not valid.
C25_Witness ==
    /\ op = "TaskCategory.IsValid"
    /\ arg.tc = <<"R", "A", "B", "O", "T", "A">>
    /\ val = FALSE

(* C26: StressLevel.IsHigh and DaytimeSleepiness.IsHigh are true exactly   *)
(* from 7 up, EnergyLevel.IsLow exactly up to 3, MoodLevel.IsPositive      *)
(* exactly from 6 up and SleepQuality.IsGood exactly from 7 up.            *)
C26_ScalePredicates ==
    /\ op \in {"StressLevel.IsHigh", "DaytimeSleepiness.IsHigh",
               "SleepQuality.IsGood"} => (val <=> arg.v >= 7)
    /\ op = "EnergyLevel.IsLow" => (val <=> arg.v <= 3)
    /\ op = "MoodLevel.IsPositive" => (val <=> arg.v >= 6)

C26_Witness ==
    /\ op = "MoodLevel.IsPositive"
    /\ arg.v = 6
    /\ val = TRUE

(* C27: an error built by NewDomainError or NewDomainErrorWithCode         *)
(* satisfies IsDomainError only, one built by NewValidationError           *)
(* IsValidationError only, one built by NewNotFoundError IsNotFoundError   *)
(* only; the accessors of each return the message and code, the field and  *)
(* message, or the resource and id it was built with.                      *)
C27_ErrorKinds ==
    /\ op \in {"NewDomainError", "NewDomainErrorWithCode"} =>
          /\ IsDomainError(ret)
          /\ ~IsValidationError(ret)
          /\ ~IsNotFoundError(ret)
          /\ DomainError_Message(ret) = arg.message
          /\ DomainError_Code(ret) =
                IF op = "NewDomainError" THEN "DOMAIN_ERROR" ELSE arg.code
    /\ op = "NewValidationError" =>
          /\ IsValidationError(ret)
          /\ ~IsDomainError(ret)
          /\ ~IsNotFoundError(ret)
          /\ ValidationError_Field(ret) = arg.field
          /\ ValidationError_Message(ret) = arg.message
    /\ op = "NewNotFoundError" =>
          /\ IsNotFoundError(ret)
          /\ ~IsDomainError(ret)
          /\ ~IsValidationError(ret)
          /\ NotFoundError_Resource(ret) = arg.resource
          /\ NotFoundError_ID(ret) = arg.id

C27_Witness ==
    /\ op = "NewDomainErrorWithCode"
    /\ arg.code = "E42"
    /\ IsDomainError(ret)
    /\ DomainError_Code(ret) = "E42"

(* C28: two callers that run StartTask on one TaskEntry with no lock can   *)
(* both pass the check of started and both return no error, which leaves   *)
(* two TaskStarted events in the buffer, or one when an append is lost;    *)
(* when one call ends before the other begins, at most one call returns no *)
(* error and at most one TaskStarted event is in the buffer.               *)
C28_StartTaskRace ==
    /\ ~Overlapped =>
          /\ hist.startOk <= 1
          /\ ~te.nil => CountType(te.domainEvents, "TaskStarted") <= 1
    /\ BothReturned =>
          /\ hist.startOk >= 1
          /\ CountType(te.domainEvents, "TaskStarted") >= 1
          /\ CountType(te.domainEvents, "TaskStarted") <= hist.startOk
          /\ te.started /\ te.startTime # <<>>

\* Both calls returned no error and two TaskStarted events are in the buffer.
C28_Witness ==
    /\ BothReturned
    /\ Overlapped
    /\ hist.startOk = 2
    /\ Types(te.domainEvents) = <<"TaskStarted", "TaskStarted">>

(* C29: in every state of a TaskEntry the start time is set if and only if *)
(* started is true; started, once true, stays true, and the start time,    *)
(* once set, is changed by no later call, a StartTask call that returns an *)
(* error and ClearDomainEvents included.                                   *)
C29_StartTimeIffStarted ==
    /\ [](~te.nil => (te.startTime # <<>> <=> te.started))
    /\ [][~te.nil /\ te.started => te'.started]_vars
    /\ [][~te.nil /\ te.startTime # <<>> => te'.startTime = te.startTime]_vars

\* Started at 0; at 1 a second StartTask call returns the error.
C29_Witness ==
    /\ op = "StartTask"
    /\ IsErr(ret)
    /\ now = 1
    /\ te.started
    /\ te.startTime = <<0>>

(* C30: the night-awakenings counter of a SleepEntry is the number of      *)
(* RecordNightAwakening calls made so far and never goes down, whatever is *)
(* called, ClearDomainEvents included; from two awakenings on              *)
(* IsSleepHealthy() is false for ever, and every RecordNightAwakening call *)
(* after the second ends with a PoorSleepQualityDetected event.            *)
C30_AwakeningsCounter ==
    /\ [](~se.nil =>
            /\ se.nightAwakenings = hist.awakeningCalls
            /\ se.nightAwakenings >= 2 => ~SleepEntry_IsSleepHealthy(se)
            /\ op = "IsSleepHealthy" /\ se.nightAwakenings >= 2 => ~ret.value)
    /\ [][~se.nil => se'.nightAwakenings >= se.nightAwakenings]_vars
    /\ [][Called("RecordNightAwakening") /\ se.nightAwakenings >= 2 =>
            /\ Len(se'.domainEvents) = Len(se.domainEvents) + 2
            /\ se'.domainEvents[Len(se'.domainEvents)].type =
                  "PoorSleepQualityDetected"
            /\ se'.domainEvents[Len(se'.domainEvents)].awakenings =
                  se.nightAwakenings + 1]_vars

\* Four awakenings, the buffer cleared after each: the counter is 4.
C30_Witness ==
    /\ ~se.nil
    /\ op = "ClearDomainEvents"
    /\ se.nightAwakenings = 4
    /\ hist.poorByAwakenings = 2
    /\ se.domainEvents = <<>>

C32_StressEventLevels ==
    /\ [](~te.nil =>
            /\ op = "NewTaskEntry" =>
                  te.id = arg.id /\ te.stressBefore = arg.stressBefore
            /\ \A i \in DOMAIN te.domainEvents :
                  te.domainEvents[i].type = "StressLevelChanged" =>
                      /\ te.domainEvents[i].taskEntryID = te.id
                      /\ te.domainEvents[i].stressBefore = te.stressBefore)
    /\ [][~te.nil => te'.id = te.id /\ te'.stressBefore = te.stressBefore]_vars
    /\ [][Called("SetStressAfter") =>
            LET event == te'.domainEvents[Len(te'.domainEvents)]
            IN  /\ Len(te'.domainEvents) = Len(te.domainEvents) + 1
                /\ event.type = "StressLevelChanged"
                /\ event.taskEntryID = te.id
                /\ event.stressBefore = te.stressBefore
                /\ event.stressAfter = arg'.stressLevel]_vars

\* Created with stressBefore 4; SetStressAfter(10), then SetStressAfter(0):
\* the second event carries 4, not the 10 held before the call.
C32_Witness ==
    /\ op = "SetStressAfter"
    /\ ~te.nil
    /\ te.stressBefore = 4
    /\ arg.stressLevel = 0
    /\ Types(te.domainEvents) = <<"StressLevelChanged", "StressLevelChanged">>
    /\ te.domainEvents[1].stressBefore = 4
    /\ te.domainEvents[1].stressAfter = 10
    /\ te.domainEvents[2].stressBefore = 4
    /\ te.domainEvents[2].stressAfter = 0

(* C33: any two events NewBaseEvent has returned have different EventID()  *)
(* values, two events made at the same reading of the clock included.      *)
C33_EventIDUnique ==
    \A i, j \in DOMAIN made :
        i # j => BaseEvent_EventID(made[i]) # BaseEvent_EventID(made[j])

====
